---- MODULE Spec2Model ----
(***************************************************************************)
(* Register-level driver of the LMX2594 synthesizer (src/firmware/main.py) *)
(* as a state machine: the bit-field helpers, the SPI register transport,  *)
(* read-modify-write, the driver's operations as sequences of bus          *)
(* transactions, the bring-up program main(), and the device's register    *)
(* file as the driver's comments describe it.                              *)
(***************************************************************************)
EXTENDS Integers, Sequences, FiniteSets, TLC

VARIABLES
    fin,      \* inputs of the bit-field helpers under test
    fout,     \* their results ("none" before they are applied)
    regs,     \* the device's register file, address -> 16-bit word
    ld,       \* level the MUXOUT pin shows while it is lock detect (readback locked)
    wire,     \* pin and byte events of the latest bus transaction
    rclk,     \* level of the RCLK trigger pin
    caller,   \* "main": the program main(); "any": any caller of the driver
    pc,       \* main(): index of the next statement of the bring-up sequence
    chunks,   \* main(): 2-character chunks read from stdin so far
    cur,      \* the driver operation in progress (or the last one)
    todo,     \* steps of the operation in progress still to execute
    acc,      \* modify(): the local `reg`, the word its read returned
    rd,       \* the local `regs` dict of the read_* helpers: address -> word read
    loc,      \* locals of calc_f_pd / calc_f_vco / configure_ramp
    err,      \* exception raised by the operation in progress ("none" if none)
    log,      \* bus transactions the operation in progress has issued so far
    ncalls,   \* driver operations started by the caller "any"
    others,   \* register writes made by a second agent so far
    ow,       \* the second agent's write during the operation in progress
    dflt      \* which reset-default profile this device has

vars == <<fin, fout, regs, ld, wire, rclk, caller, pc, chunks, cur, todo, acc,
          rd, loc, err, log, ncalls, others, ow, dflt>>

---------------------------------------------------------------------------
(* Bounds of the model *)

MaxWordIdx == 5      \* sample words for the bit-field helpers: 0..MaxWordIdx
MaxData == 9         \* sample data 0..MaxData, beside the fixed wide samples
MaxCalls == 2        \* operations the caller "any" starts after taking over
MaxOther == 1        \* register writes of the second agent
MaxChunks == 2       \* stdin chunks main() reads in its trigger loop
MaxProfile == 1      \* reset-default profiles of the register file: 0..MaxProfile

---------------------------------------------------------------------------
(* Bit arithmetic on Python ints *)

\* (x >> i) & 1, also for negative x (Python's >> is an arithmetic shift)
BitAt(x, i) == (x \div (2 ^ i)) % 2

\* a & b for a, b >= 0
RECURSIVE BitAnd(_, _)
BitAnd(a, b) ==
    IF a = 0 \/ b = 0 THEN 0
    ELSE (a % 2) * (b % 2) + 2 * BitAnd(a \div 2, b \div 2)

\* word & (0xFFFF & ~(0x1 << i)) for word >= 0
ClearBit16(word, i) ==
    LET w16 == word % 65536
    IN  IF i <= 15 THEN w16 - BitAt(w16, i) * (2 ^ i) ELSE w16

\* the loop body of modify_word at index i, then the rest of the loop
RECURSIVE modify_loop(_, _, _, _, _)
modify_loop(word, i, low, high, data) ==
    IF i > high THEN word
    ELSE LET cleared == ClearBit16(word, i)
             bit == BitAt(data, i - low)
         IN  modify_loop(cleared + bit * (2 ^ i), i + 1, low, high, data)

\* modify_word looping over range(low, high + 2): one index too many
modify_word_wide(word, bits, data) ==
    modify_loop(word, bits[1], bits[1], bits[2] + 1, data)

modify_word(word, bits, data) ==
    modify_loop(word, bits[1], bits[1], bits[2], data)

\* the bitmask loop of get_bits: one more 1 per index of range(low, high + 1)
RECURSIVE mask_loop(_, _, _)
mask_loop(bitmask, i, high) ==
    IF i > high THEN bitmask
    ELSE mask_loop(bitmask * 2 + 1, i + 1, high)

\* get_bits with range(low, high) in place of range(low, high + 1)
get_bits_short(word, bits) ==
    LET bitmask == mask_loop(0, bits[1], bits[2] - 1) * (2 ^ bits[1])
    IN  BitAnd(word, bitmask) \div (2 ^ bits[1])

get_bits(word, bits) ==
    LET bitmask == mask_loop(0, bits[1], bits[2]) * (2 ^ bits[1])
    IN  BitAnd(word, bitmask) \div (2 ^ bits[1])

---------------------------------------------------------------------------
(* The bit-field helpers on sampled inputs *)

WordSample(i) == (i * 13107) % 65536

Words == {WordSample(i) : i \in 0 .. MaxWordIdx}

WideData == {255, 256, 43690, 65535, 65536, 74565, -1, -21846}

Datas == (0 .. MaxData) \cup WideData

BitRanges == {b \in (0 .. 15) \X (0 .. 15) : b[1] <= b[2]}

InitBits ==
    /\ fin \in [word : Words, bits : BitRanges, data : Datas]
    /\ fout = [done |-> FALSE, set |-> 0, got |-> 0]

\* set the field, then read it back
ApplyBits ==
    /\ ~fout.done
    /\ fout' = [done |-> TRUE,
                set |-> modify_word(fin.word, fin.bits, fin.data),
                got |-> get_bits(modify_word(fin.word, fin.bits, fin.data), fin.bits)]
    /\ UNCHANGED <<fin, regs, ld, wire, rclk, caller, pc, chunks, cur, todo, acc,
                   rd, loc, err, log, ncalls, others, ow, dflt>>

---------------------------------------------------------------------------
(* The device: its register file as the driver addresses and describes it *)

Addrs == 0 .. 112

\* 0b0010010000010000, the word enable_readback_blind writes to R0
UnlockWord == 9232

F_REFCLK == 10      \* reference oscillator, MHz

\* R0 after a reset: readback is off (MUXOUT_LD_SEL = 1), calibration disabled
ResetR0 == modify_word(UnlockWord, <<2, 2>>, 1)

\* the word every register but R0 holds by default in profile p, before the
\* divider fields main() relies on
Background(p) == (p * 42405) % 65536

\* the reset default of register a in profile p; the reference dividers
\* PLL_R and PLL_R_PRE, which main() never programs, are 1 unless p = 2
DefaultReg(a, p) ==
    IF a = 0 THEN ResetR0
    ELSE IF a = 11 /\ p # 2 THEN modify_word(Background(p), <<4, 11>>, 1)
    ELSE IF a = 12 /\ p # 2 THEN modify_word(Background(p), <<0, 11>>, 1)
    ELSE Background(p)

Defaults(p) == [a \in Addrs |-> DefaultReg(a, p)]

\* fields of R0 as read_general_regs() decodes them
FCAL_EN(r) == get_bits(r[0], <<3, 3>>)
RAMP_EN(r) == get_bits(r[0], <<15, 15>>)
POWERDOWN(r) == get_bits(r[0], <<0, 0>>)

\* MUXOUT_LD_SEL = 1: the MUXOUT pin shows lock detect and register reads fail
Locked(r) == get_bits(r[0], <<2, 2>>) = 1

\* what 16 clocks of a steady MUXOUT level read as
Garbage(level) == IF level = 1 THEN 65535 ELSE 0

\* the device's reaction to a write frame for address a with word w
DevWrite(r, a, w, p) ==
    IF a = 0 /\ BitAt(w, 1) = 1 THEN Defaults(p)
    ELSE IF a \in Addrs THEN [r EXCEPT ![a] = w]
    ELSE r

\* the two bytes the device clocks out for a read of address a
DevReadBytes(r, level, a) ==
    LET w == IF Locked(r) THEN Garbage(level)
             ELSE IF a \in Addrs THEN r[a] ELSE 0
    IN  <<w \div 256, w % 256>>

---------------------------------------------------------------------------
(* RegisterTransport: LMX2594.read / LMX2594.write as chip-select frames *)

\* write() sending the low data byte before the high one
WriteBytesLowFirst(addr, data) == <<addr % 128, data % 256, (data \div 256) % 256>>

\* write(): a_byte, d1_byte, d2_byte
WriteBytes(addr, data) == <<addr % 128, (data \div 256) % 256, data % 256>>

\* read() sending the address without the read flag
ReadByteNoFlag(addr) == addr % 128

\* read(): a_byte with the read flag
ReadByte(addr) == (addr % 128) + 128

\* the two bytes read taken low byte first
FromBytesLittle(bs) == bs[2] * 256 + bs[1]

\* int.from_bytes(data, "big")
FromBytesBig(bs) == bs[1] * 256 + bs[2]

CsEvent(v) == <<"cs", v>>
TxEvent(b) == <<"tx", b>>
RxEvent(b) == <<"rx", b>>

WriteWire(addr, data) ==
    <<CsEvent(0)>> \o [i \in 1 .. 3 |-> TxEvent(WriteBytes(addr, data)[i])]
        \o <<CsEvent(1)>>

ReadWire(addr, bs) ==
    <<CsEvent(0), TxEvent(ReadByte(addr)), RxEvent(bs[1]), RxEvent(bs[2]),
      CsEvent(1)>>

\* a logged transaction: the address and word as the device decodes them
LogRead(a, w) == [op |-> "r", addr |-> a, data |-> w]
LogWrite(a, w) == [op |-> "w", addr |-> a, data |-> w]

---------------------------------------------------------------------------
(* Steps of a driver operation *)

Step(k, a, lo, hi, d) == [k |-> k, a |-> a, lo |-> lo, hi |-> hi, d |-> d]

Rd(a) == Step("read", a, 0, 0, 0)
Wr(a, d) == Step("write", a, 0, 0, d)
Calc(what, d) == Step(what, 0, 0, 0, d)

\* a failed assert: the operation ends with AssertionError
AssertFails == <<Step("AssertionError", 0, 0, 0, 0)>>

\* modify() that writes the new field without reading the register first
modify_blind(addr, bits, data) ==
    <<Step("write", addr, 0, 0, modify_word(0, bits, data))>>

\* modify(): reg = self.read(addr); self.write(addr, modify_word(reg, bits, data))
modify(addr, bits, data) ==
    <<Step("mread", addr, bits[1], bits[2], data),
      Step("mwrite", addr, bits[1], bits[2], data)>>

Reads(addrs) == [i \in 1 .. Len(addrs) |-> Rd(addrs[i])]

Range(lo, hi) == [i \in 1 .. (hi - lo + 1) |-> lo + i - 1]

---------------------------------------------------------------------------
(* The driver's operations, each the sequence of steps its code executes *)

reset == modify(0, <<1, 1>>, 1)

\* the unlock word with FCAL_EN left set
enable_readback_armed == <<Wr(0, modify_word(UnlockWord, <<3, 3>>, 1))>>

\* the unlock done with modify instead of a raw write
enable_readback_modify == modify(0, <<2, 2>>, 0)

enable_readback_blind == <<Wr(0, UnlockWord)>>

\* powerdown() writing R0 whole instead of modifying bit 0
powerdown_raw(power) ==
    IF power \in {0, 1} THEN <<Wr(0, power)>> ELSE AssertFails

powerdown(power) ==
    IF power \in {0, 1} THEN modify(0, <<0, 0>>, power) ELSE AssertFails

set_muxout(en) ==
    IF en \in {0, 1} THEN modify(0, <<2, 2>>, en) ELSE AssertFails

read_general_regs == Reads(<<0, 1, 7>>)

read_input_regs == Reads(Range(9, 12))

read_charge_pump_reg == Reads(<<14>>)

read_vco_cal_regs == Reads(<<4, 8, 16, 17, 19, 20>>)

read_divider_output_regs == Reads(<<34>> \o Range(36, 46))

read_sync_reg == Reads(<<58>>)

read_lock_detect_regs == Reads(<<59, 60>>)

read_mash_reset_regs == Reads(<<69, 70>>)

read_ramp_cal_regs == Reads(Range(78, 80))

read_ramp_limit_regs == Reads(Range(81, 86))

read_ramp_trigger_regs == Reads(Range(96, 97))

read_ramp_cfg_regs == Reads(Range(98, 106))

read_lock_status_regs == Reads(<<110, 111, 112>>)

register_dump == Reads(Range(0, 112))

set_rf_output_mux(output, source) ==
    IF ~(0 <= source /\ source <= 3) THEN AssertFails
    ELSE IF output = 0 THEN modify(45, <<11, 12>>, source)
    ELSE IF output = 1 THEN modify(46, <<0, 1>>, source)
    ELSE <<>>

enable_calibration(cal) ==
    IF cal \in {0, 1} THEN modify(0, <<3, 3>>, cal) ELSE AssertFails

\* calc_f_pd(); its result goes to the local named by `into`
calc_f_pd(into) == read_input_regs \o <<Calc("f_pd", into)>>

calc_f_vco == read_divider_output_regs \o calc_f_pd(1) \o <<Calc("f_vco", 0)>>

calc_f_smclk == read_general_regs \o <<Calc("f_smclk", 0)>>

set_smclk_div(clk_div) ==
    IF 0 <= clk_div /\ clk_div <= 3 THEN modify(1, <<0, 2>>, clk_div)
    ELSE AssertFails

\* set_vco_recal_delay() checking scale_count only when it comes to write it
set_vco_recal_delay_late(delay_count, scale_count) ==
    IF ~(0 <= delay_count /\ delay_count < 512) THEN AssertFails
    ELSE modify(105, <<6, 15>>, delay_count)
             \o (IF ~(0 <= scale_count /\ scale_count <= 7) THEN AssertFails
                 ELSE modify(106, <<0, 2>>, scale_count)
                          \o calc_f_smclk \o <<Calc("recal_delay", 0)>>)

set_vco_recal_delay(delay_count, scale_count) ==
    IF ~(0 <= delay_count /\ delay_count < 512) THEN AssertFails
    ELSE IF ~(0 <= scale_count /\ scale_count <= 7) THEN AssertFails
    ELSE modify(105, <<6, 15>>, delay_count)
             \o modify(106, <<0, 2>>, scale_count)
             \o calc_f_smclk \o <<Calc("recal_delay", 0)>>

\* program_vco_dividers() writing the low word of N ahead of its high bits
program_vco_dividers_low_first(N, num_hi, num_lo, den_hi, den_lo) ==
    <<Wr(36, N % 65536)>>
        \o modify(34, <<0, 2>>, get_bits(N, <<16, 18>>))
        \o <<Wr(42, num_hi % 65536), Wr(43, num_lo),
             Wr(38, den_hi % 65536), Wr(39, den_lo)>>

\* num and denom are 32-bit: each is given as its high and low 16-bit halves
program_vco_dividers(N, num_hi, num_lo, den_hi, den_lo) ==
    modify(34, <<0, 2>>, get_bits(N, <<16, 18>>))
        \o <<Wr(36, N % 65536),
             Wr(42, num_hi % 65536), Wr(43, num_lo),
             Wr(38, den_hi % 65536), Wr(39, den_lo)>>

set_input_doubler(en) ==
    IF en \in {0, 1} THEN modify(9, <<12, 12>>, en) ELSE AssertFails

set_input_multiplier(mult) ==
    IF (3 <= mult /\ mult <= 7) \/ mult = 1 THEN modify(10, <<7, 11>>, mult)
    ELSE AssertFails

set_output_power(output, power) ==
    IF output \notin {0, 1} THEN AssertFails
    ELSE IF ~(0 <= power /\ power <= 31) THEN AssertFails
    ELSE IF output = 0 THEN modify(44, <<8, 13>>, power)
    ELSE modify(45, <<0, 5>>, power)

set_channel_divider(div_index) ==
    IF ~(0 <= div_index /\ div_index <= 17) THEN AssertFails
    ELSE modify(31, <<14, 14>>, IF div_index # 0 THEN 1 ELSE 0)
             \o modify(75, <<6, 10>>, div_index)

enable_ramp(en) ==
    IF en \in {0, 1} THEN modify(0, <<15, 15>>, en) ELSE AssertFails

set_ramp_trig_type(ramp, trig) ==
    IF ramp \notin {0, 1} THEN AssertFails
    ELSE IF ~(0 <= trig /\ trig <= 2) THEN AssertFails
    ELSE IF ramp = 0 THEN modify(101, <<0, 1>>, trig)
    ELSE modify(105, <<0, 1>>, trig)

\* set_ramp_trig() writing trigger A over the field of trigger B as well
set_ramp_trig_wide(trig_idx, trig) ==
    IF trig_idx \notin {0, 1} THEN AssertFails
    ELSE IF trig \notin {0, 1, 2, 4, 9, 10} THEN AssertFails
    ELSE IF trig_idx = 0 THEN modify(97, <<3, 10>>, trig)
    ELSE modify(97, <<7, 10>>, trig)

set_ramp_trig(trig_idx, trig) ==
    IF trig_idx \notin {0, 1} THEN AssertFails
    ELSE IF trig \notin {0, 1, 2, 4, 9, 10} THEN AssertFails
    ELSE IF trig_idx = 0 THEN modify(97, <<3, 6>>, trig)
    ELSE modify(97, <<7, 10>>, trig)

\* the mode and trigger writes of configure_ramp() leaving RAMP_SCALE_COUNT
\* as it is
configure_ramp_mode_keep_scale(free_run) ==
    modify(105, <<5, 5>>, 0)
        \o (IF free_run = 1
            THEN set_ramp_trig_type(0, 0) \o set_ramp_trig(0, 0)
            ELSE set_ramp_trig_type(0, 1) \o set_ramp_trig(0, 1))
        \o modify(101, <<4, 4>>, 0)
        \o modify(97, <<15, 15>>, 1)
        \o modify(106, <<4, 4>>, 0)
        \o <<Wr(60, 0)>>
        \o modify(78, <<9, 9>>, 1)

\* configure_ramp(), lines 665-680: the mode and trigger writes
configure_ramp_mode(free_run) ==
    modify(105, <<5, 5>>, 0)
        \o (IF free_run = 1
            THEN set_ramp_trig_type(0, 0) \o set_ramp_trig(0, 0)
            ELSE set_ramp_trig_type(0, 1) \o set_ramp_trig(0, 1))
        \o modify(101, <<4, 4>>, 0)
        \o modify(97, <<15, 15>>, 1)
        \o modify(106, <<4, 4>>, 0)
        \o <<Wr(60, 0)>>
        \o modify(106, <<0, 2>>, 1)
        \o modify(78, <<9, 9>>, 1)

\* configure_ramp() up to its parameter computation (lines 662-680)
configure_ramp_head(free_run) ==
    calc_f_pd(0) \o calc_f_vco \o configure_ramp_mode(free_run)

\* configure_ramp() computing and checking its parameters ahead of the mode
\* writes
configure_ramp_checked_first(free_run) ==
    calc_f_pd(0) \o calc_f_vco \o <<Calc("ramp", 0)>> \o configure_ramp_mode(free_run)

\* configure_ramp() that also arms the ramp when it is done
configure_ramp_arming(free_run) ==
    configure_ramp_head(free_run) \o <<Calc("ramp", 0)>> \o enable_calibration(1)

configure_ramp(free_run) == configure_ramp_head(free_run) \o <<Calc("ramp", 0)>>

\* the trigger loop body that leaves RCLK high
trigger_pulse_left_high == <<Step("pin", 0, 0, 0, 1)>>

\* main(), lines 790-793: pll.rclk.value(1), then pll.rclk.value(0)
trigger_pulse == <<Step("pin", 0, 0, 0, 1), Step("pin", 0, 0, 0, 0)>>

---------------------------------------------------------------------------
(* FrequencyModel and the ramp parameters, in exact rational arithmetic.  *)
(* Frequencies are in MHz and times in microseconds; a frequency is a     *)
(* pair <<numerator, denominator>>.  A derived register code v, up to 33  *)
(* bits and more, is the record [h, l] with v = h * 65536 + l and         *)
(* 0 <= l <= 65535, so that v & 0xFFFF = l and v >> 16 = h.               *)

Loc0 == [f_pd |-> <<0, 1>>, f_pd_in |-> <<0, 1>>, f_vco |-> <<>>, ret |-> <<0, 1>>]

\* calc_f_pd() on the words read_input_regs() read
FpdOf(r) ==
    LET OSC_2X == get_bits(r[9], <<12, 12>>)
        MULT == get_bits(r[10], <<7, 11>>)
        PLL_R == get_bits(r[11], <<4, 11>>)
        PLL_R_PRE == get_bits(r[12], <<0, 11>>)
    IN  [zero |-> PLL_R_PRE = 0 \/ PLL_R = 0,
         val |-> <<F_REFCLK * (OSC_2X + 1) * MULT, PLL_R_PRE * PLL_R>>]

\* calc_f_vco() taken to return a value whatever PLL_DEN is
FvcoOfUnguarded(r, f_pd) ==
    [zero |-> FALSE,
     val |-> <<f_pd[1], f_pd[2],
               get_bits(r[34], <<0, 2>>) * 65536 + r[36],
               r[42], r[43], r[38], r[39]>>]

\* calc_f_vco() on the words read_divider_output_regs() read: f_pd, PLL_N and
\* the halves of PLL_NUM and PLL_DEN; the division is by PLL_DEN
FvcoOf(r, f_pd) ==
    [zero |-> r[38] = 0 /\ r[39] = 0,
     val |-> <<f_pd[1], f_pd[2],
               get_bits(r[34], <<0, 2>>) * 65536 + r[36],
               r[42], r[43], r[38], r[39]>>]

\* calc_f_smclk() on the words read_general_regs() read
FsmclkOf(r) == <<F_REFCLK, 2 ^ get_bits(r[1], <<0, 2>>)>>

\* floor(A * 2^k / B) and the remainder, one bit at a time
RECURSIVE LongDivLoop(_, _, _, _)
LongDivLoop(q, r, k, B) ==
    IF k = 0 THEN <<q, r>>
    ELSE IF 2 * r >= B THEN LongDivLoop(2 * q + 1, 2 * r - B, k - 1, B)
    ELSE LongDivLoop(2 * q, 2 * r, k - 1, B)

LongDiv(A, k, B) == LongDivLoop(A \div B, A % B, k, B)

\* floor(A * 16777216 / B) as [h, l], and whether the division is exact
WideQuot(A, B) ==
    LET s1 == LongDiv(A, 8, B)
        s2 == LongDiv(s1[2], 16, B)
    IN  [h |-> s1[1], l |-> s2[1], exact |-> s2[2] = 0]

Wide(h, l) == [h |-> h, l |-> l]

WideSub(a, b) ==
    IF a.l >= b.l THEN Wide(a.h - b.h, a.l - b.l)
    ELSE Wide(a.h - b.h - 1, a.l - b.l + 65536)

WideInc(a) == IF a.l = 65535 THEN Wide(a.h + 1, 0) ELSE Wide(a.h, a.l + 1)

\* int(0x200000000 - x) for the real x whose floor is xq: int() truncates
\* towards zero
RampLowOf(xq) ==
    LET two33 == Wide(131072, 0)
        below == xq.h < 131072 \/ (xq.h = 131072 /\ xq.l = 0 /\ xq.exact)
    IN  IF below THEN WideSub(two33, IF xq.exact THEN xq ELSE WideInc(xq))
        ELSE WideSub(two33, xq)

\* lines 683-697 and 709-713 of configure_ramp(): the derived codes, or the
\* exception their computation or the asserts raise.
\* args = <<span numerator, span denominator, ramp length (us), threshold,
\*          neg_ramp, free_run>>
RampParamsWith(args, f_pd, max_len, neg_base) ==
    LET fn == f_pd[1]
        fd == f_pd[2]
        ramp_len == (args[3] * fn) \div fd
        none == Wide(0, 0)
        fail(e) == [status |-> e, len |-> ramp_len, inc |-> none,
                    thresh |-> none, high |-> none, low |-> none]
    IN  IF fn = 0 \/ ramp_len = 0 THEN fail("ZeroDivisionError")
        ELSE IF ramp_len > max_len THEN fail("AssertionError")
        ELSE
          LET asc == WideQuot(args[1] * fd, args[2] * fn * ramp_len)
              ramp_inc == IF args[5] = 1 THEN WideSub(neg_base, asc)
                          ELSE Wide(asc.h, asc.l)
              tq == WideQuot(args[4] * fd, fn)
              hq == WideQuot(2 * args[1] * fd, args[2] * fn)
          IN  IF ~(0 <= ramp_inc.h /\ ramp_inc.h <= 16383) THEN fail("AssertionError")
              ELSE IF ~(0 <= tq.h /\ tq.h <= 8191) THEN fail("AssertionError")
              ELSE [status |-> "ok", len |-> ramp_len, inc |-> ramp_inc,
                    thresh |-> Wide(tq.h, tq.l), high |-> Wide(hq.h, hq.l),
                    low |-> RampLowOf(hq)]

\* configure_ramp() without the upper bound on ramp_len
RampParamsAnyLen(args, f_pd) ==
    RampParamsWith(args, f_pd, 1000000, Wide(16384, 0))

\* configure_ramp() negating ramp_inc as 0x3FFFFFFF - ramp_inc
RampParamsOnesComplement(args, f_pd) ==
    RampParamsWith(args, f_pd, 65535, Wide(16383, 65535))

\* ramp_len <= 0xFFFF, and 0x40000000 - ramp_inc for a descending ramp
RampParams(args, f_pd) == RampParamsWith(args, f_pd, 65535, Wide(16384, 0))

\* line 683: ramp_len = int(ramp_len_s * f_pd)
RampLenOf(args, f_pd) == (args[3] * f_pd[1]) \div f_pd[2]

\* line 684: int(span_hz / f_pd * 16777216 / ramp_len), before the negation
AscIncOf(args, f_pd) ==
    WideQuot(args[1] * f_pd[2], args[2] * f_pd[1] * RampLenOf(args, f_pd))

\* line 685: ramp_thresh = int((thresh_hz / f_pd) * 16777216)
ThreshOf(args, f_pd) == WideQuot(args[4] * f_pd[2], f_pd[1])

\* line 712: ramp_high = int((f_high - f_vco) / f_pd * 16777216), f_high - f_vco
\* being span_hz * 2
RampHighOf(args, f_pd) == WideQuot(2 * args[1] * f_pd[2], args[2] * f_pd[1])

\* (v >> 32) & 0x0001 and (v >> 16) & 0xFFFF of a derived code
Bit32(v) == (v.h \div 65536) % 2
High16(v) == v.h % 65536

\* the extended fields as the read_*_regs() functions assemble them from the
\* words read, each as [h, l]
\* PLL_N assembled with a single bit of R34
PLL_N_one_bit(r) == Wide(get_bits(r[34], <<0, 0>>), r[36])

PLL_N(r) == Wide(get_bits(r[34], <<0, 2>>), r[36])
PLL_DEN(r) == Wide(r[38], r[39])
PLL_NUM(r) == Wide(r[42], r[43])
RAMP_THRESH(r) == Wide(get_bits(r[78], <<11, 11>>) * 65536 + r[79], r[80])
RAMP_LIMIT_HIGH(r) == Wide(get_bits(r[81], <<0, 0>>) * 65536 + r[82], r[83])
RAMP_LIMIT_LOW(r) == Wide(get_bits(r[84], <<0, 0>>) * 65536 + r[85], r[86])
RAMP0_INC(r) == Wide(get_bits(r[98], <<2, 15>>), r[99])
RAMP0_LEN(r) == r[100]

\* the writes of the derived codes with ramp_len and the low word of ramp_inc
\* in each other's register
RampWritesSwapped(p) ==
    modify(98, <<2, 15>>, p.inc.h % 16384)
        \o <<Wr(99, p.len), Wr(100, p.inc.l)>>
        \o modify(78, <<11, 11>>, Bit32(p.thresh))
        \o <<Wr(79, High16(p.thresh)), Wr(80, p.thresh.l)>>
        \o modify(81, <<0, 0>>, Bit32(p.high))
        \o <<Wr(82, High16(p.high)), Wr(83, p.high.l)>>
        \o modify(84, <<0, 0>>, Bit32(p.low))
        \o <<Wr(85, High16(p.low)), Wr(86, p.low.l)>>

\* lines 699-722 of configure_ramp(): the writes of the derived codes
RampWrites(p) ==
    modify(98, <<2, 15>>, p.inc.h % 16384)
        \o <<Wr(99, p.inc.l), Wr(100, p.len)>>
        \o modify(78, <<11, 11>>, Bit32(p.thresh))
        \o <<Wr(79, High16(p.thresh)), Wr(80, p.thresh.l)>>
        \o modify(81, <<0, 0>>, Bit32(p.high))
        \o <<Wr(82, High16(p.high)), Wr(83, p.high.l)>>
        \o modify(84, <<0, 0>>, Bit32(p.low))
        \o <<Wr(85, High16(p.low)), Wr(86, p.low.l)>>

---------------------------------------------------------------------------
(* Calls: an operation and its arguments *)

Call(op, args) == [op |-> op, args |-> args]

NoCall == Call("none", <<>>)

\* the steps of a call
Prog(c) ==
    LET x == c.args
    IN  CASE c.op = "reset" -> reset
          [] c.op = "enable_readback_blind" -> enable_readback_blind
          [] c.op = "powerdown" -> powerdown(x[1])
          [] c.op = "set_muxout" -> set_muxout(x[1])
          [] c.op = "enable_calibration" -> enable_calibration(x[1])
          [] c.op = "enable_ramp" -> enable_ramp(x[1])
          [] c.op = "set_input_doubler" -> set_input_doubler(x[1])
          [] c.op = "set_input_multiplier" -> set_input_multiplier(x[1])
          [] c.op = "program_vco_dividers" ->
                 program_vco_dividers(x[1], x[2], x[3], x[4], x[5])
          [] c.op = "set_channel_divider" -> set_channel_divider(x[1])
          [] c.op = "set_rf_output_mux" -> set_rf_output_mux(x[1], x[2])
          [] c.op = "set_output_power" -> set_output_power(x[1], x[2])
          [] c.op = "set_smclk_div" -> set_smclk_div(x[1])
          [] c.op = "set_vco_recal_delay" -> set_vco_recal_delay(x[1], x[2])
          [] c.op = "set_ramp_trig_type" -> set_ramp_trig_type(x[1], x[2])
          [] c.op = "set_ramp_trig" -> set_ramp_trig(x[1], x[2])
          [] c.op = "configure_ramp" -> configure_ramp(x[6])
          [] c.op = "modify" -> modify(x[1], <<x[2], x[3]>>, x[4])
          [] c.op = "write" -> <<Wr(x[1], x[2])>>
          [] c.op = "read" -> <<Rd(x[1])>>
          [] c.op = "write_read" -> <<Wr(x[1], x[2]), Rd(x[1])>>
          [] c.op = "read_lock_status_regs" -> read_lock_status_regs
          [] c.op = "read_ramp_cfg_regs" -> read_ramp_cfg_regs
          [] c.op = "read_ramp_trigger_regs" -> read_ramp_trigger_regs
          [] c.op = "read_ramp_limit_regs" -> read_ramp_limit_regs
          [] c.op = "read_ramp_cal_regs" -> read_ramp_cal_regs
          [] c.op = "read_mash_reset_regs" -> read_mash_reset_regs
          [] c.op = "read_lock_detect_regs" -> read_lock_detect_regs
          [] c.op = "read_sync_reg" -> read_sync_reg
          [] c.op = "read_divider_output_regs" -> read_divider_output_regs
          [] c.op = "read_vco_cal_regs" -> read_vco_cal_regs
          [] c.op = "read_charge_pump_reg" -> read_charge_pump_reg
          [] c.op = "read_input_regs" -> read_input_regs
          [] c.op = "read_general_regs" -> read_general_regs
          [] c.op = "register_dump" -> register_dump
          [] c.op = "calc_f_pd" -> calc_f_pd(0)
          [] c.op = "calc_f_vco" -> calc_f_vco
          [] c.op = "calc_f_smclk" -> calc_f_smclk
          [] c.op = "rclk_value" -> <<Step("pin", 0, 0, 0, x[1])>>
          [] c.op = "trigger" -> trigger_pulse
          [] c.op = "dividers_then_read" ->
                 program_vco_dividers(x[1], x[2], x[3], x[4], x[5])
                     \o read_divider_output_regs
          [] c.op = "ramp_then_read" ->
                 configure_ramp(x[6]) \o read_ramp_cfg_regs \o read_ramp_cal_regs
                     \o read_ramp_limit_regs

\* main(), lines 743-787: the bring-up sequence and the register print-out
MainSequence ==
    <<Call("rclk_value", <<0>>),
      Call("reset", <<>>),
      Call("enable_readback_blind", <<>>),
      Call("set_input_doubler", <<1>>),
      Call("set_input_multiplier", <<1>>),
      Call("program_vco_dividers", <<580, 0, 1, 65535, 65535>>),
      Call("set_channel_divider", <<0>>),
      Call("set_rf_output_mux", <<0, 0>>),
      Call("set_output_power", <<0, 9>>),
      Call("set_smclk_div", <<0>>),
      Call("set_vco_recal_delay", <<300, 0>>),
      Call("enable_calibration", <<0>>),
      Call("configure_ramp", <<100, 1, 2000, 150, 1, 0>>),
      Call("enable_ramp", <<1>>),
      Call("enable_calibration", <<1>>),
      Call("read_lock_status_regs", <<>>),
      Call("read_ramp_cfg_regs", <<>>),
      Call("read_ramp_trigger_regs", <<>>),
      Call("read_ramp_limit_regs", <<>>),
      Call("read_ramp_cal_regs", <<>>),
      Call("read_mash_reset_regs", <<>>),
      Call("read_lock_detect_regs", <<>>),
      Call("read_sync_reg", <<>>),
      Call("read_divider_output_regs", <<>>),
      Call("read_vco_cal_regs", <<>>),
      Call("read_charge_pump_reg", <<>>),
      Call("read_input_regs", <<>>),
      Call("read_general_regs", <<>>),
      Call("calc_f_pd", <<>>),
      Call("calc_f_vco", <<>>),
      Call("calc_f_smclk", <<>>)>>

\* main() with enable_calibration(1) in place of enable_calibration(0) ahead of
\* configure_ramp()
MainProgramEarlyCal ==
    [MainSequence EXCEPT ![12] = Call("enable_calibration", <<1>>)]

MainProgram == MainSequence

\* statements of main() another caller may take the device over before:
\* at power-up, before configure_ramp(), after the arming
TakeoverPoints == {2, 13, 16}

\* configure_ramp() arguments the caller "any" tries: those of main(), a ramp
\* of no length, and an ascending free-running ramp of 10 kHz with a zero
\* threshold, which passes the asserts on the all-ones words read while
\* readback is locked
RampArgs ==
    {<<100, 1, 2000, 150, 1, 0>>, <<100, 1, 0, 150, 0, 0>>,
     <<1, 100, 2000, 0, 0, 1>>}

\* the calls the caller "any" chooses from
Menu ==
    {Call("reset", <<>>), Call("enable_readback_blind", <<>>)}
        \cup {Call(op, <<v>>) : op \in {"set_muxout", "enable_calibration"},
                                v \in {0, 1}}
        \cup {Call("powerdown", <<1>>), Call("enable_ramp", <<1>>),
              Call("enable_ramp", <<2>>), Call("modify", <<97, 3, 6, 255>>)}
        \cup {Call("configure_ramp", a) : a \in RampArgs}

\* what the second agent writes, and where, while modify(addr, ...) is between
\* its read and its write
OtherWords == {0, 65533}
OtherAddrs(addr) == {addr}

---------------------------------------------------------------------------
(* The driver at work *)

NoOther == [addr |-> -1, data |-> 0, call |-> -1, at |-> -1]

\* power-up: registers at their defaults, readback locked, main() about to run
InitDriver ==
    /\ dflt \in 0 .. MaxProfile
    /\ regs = Defaults(dflt)
    /\ ld \in {0, 1}
    /\ wire = <<CsEvent(1)>>
    /\ rclk = 0
    /\ caller = "main"
    /\ pc = 1
    /\ chunks = 0
    /\ cur = NoCall
    /\ todo = <<>>
    /\ acc = 0
    /\ rd = <<>>
    /\ loc = Loc0
    /\ err = "none"
    /\ log = <<>>
    /\ ncalls = 0
    /\ others = 0
    /\ ow = NoOther

Idle == todo = <<>>

\* entering an operation: fresh locals, its steps ahead
Start(c) ==
    /\ cur' = c
    /\ todo' = Prog(c)
    /\ acc' = 0
    /\ rd' = <<>>
    /\ loc' = Loc0
    /\ err' = "none"
    /\ log' = <<>>
    /\ ow' = NoOther

\* main() runs its next statement; an uncaught exception has ended it
MainCall ==
    /\ caller = "main" /\ Idle /\ err = "none"
    /\ pc <= Len(MainProgram)
    /\ Start(MainProgram[pc])
    /\ pc' = pc + 1
    /\ UNCHANGED <<fin, fout, regs, ld, wire, rclk, caller, chunks, ncalls, others, dflt>>

\* main(), lines 789-796: sys.stdin.read(2), then a trigger pulse, or on "q\n"
\* the power-down
MainStdin(quit) ==
    /\ caller = "main" /\ Idle /\ err = "none"
    /\ pc = Len(MainProgram) + 1
    /\ IF quit
       THEN /\ Start(Call("powerdown", <<1>>))
            /\ pc' = pc + 1
            /\ chunks' = chunks
       ELSE /\ chunks < MaxChunks
            /\ Start(Call("trigger", <<>>))
            /\ pc' = pc
            /\ chunks' = chunks + 1
    /\ UNCHANGED <<fin, fout, regs, ld, wire, rclk, caller, ncalls, others, dflt>>

\* another caller takes the device over where main() has brought it
Takeover ==
    /\ caller = "main" /\ Idle /\ err = "none"
    /\ pc \in TakeoverPoints
    /\ caller' = "any"
    /\ UNCHANGED <<fin, fout, regs, ld, wire, rclk, pc, chunks, cur, todo, acc, rd,
                   loc, err, log, ncalls, others, ow, dflt>>

\* any caller calls an operation of the driver
AnyCall(c) ==
    /\ caller = "any" /\ Idle
    /\ ncalls < MaxCalls
    /\ Start(c)
    /\ ncalls' = ncalls + 1
    /\ UNCHANGED <<fin, fout, regs, ld, wire, rclk, caller, pc, chunks, others, dflt>>

\* the level MUXOUT shows after a write: it may change when R0 is written
LevelsAfter(a, r) ==
    IF ~Locked(r) THEN {0} ELSE IF a = 0 THEN {0, 1} ELSE {ld}

\* LMX2594.read(): one read transaction
BusRead ==
    /\ todo # <<>> /\ Head(todo).k \in {"read", "mread"}
    /\ LET s == Head(todo)
           a_byte == ReadByte(s.a)
           bs == DevReadBytes(regs, ld, a_byte % 128)
           v == FromBytesBig(bs)
       IN  /\ wire' = ReadWire(s.a, bs)
           /\ log' = Append(log, LogRead(a_byte % 128, v))
           /\ IF s.k = "mread"
              THEN acc' = v /\ rd' = rd
              ELSE acc' = acc /\ rd' = (s.a :> v) @@ rd
    /\ todo' = Tail(todo)
    /\ UNCHANGED <<fin, fout, regs, ld, rclk, caller, pc, chunks, cur, loc, err,
                   ncalls, others, ow, dflt>>

\* LMX2594.write(): one write transaction, and the device's reaction to it
BusWrite ==
    /\ todo # <<>> /\ Head(todo).k \in {"write", "mwrite"}
    /\ LET s == Head(todo)
           data == IF s.k = "mwrite" THEN modify_word(acc, <<s.lo, s.hi>>, s.d)
                   ELSE s.d
           bytes == WriteBytes(s.a, data)
           a == bytes[1]
           w == bytes[2] * 256 + bytes[3]
       IN  /\ wire' = WriteWire(s.a, data)
           /\ log' = Append(log, LogWrite(a, w))
           /\ regs' = DevWrite(regs, a, w, dflt)
           /\ ld' \in LevelsAfter(a, DevWrite(regs, a, w, dflt))
    /\ todo' = Tail(todo)
    /\ UNCHANGED <<fin, fout, rclk, caller, pc, chunks, cur, acc, rd, loc, err,
                   ncalls, others, ow, dflt>>

\* the arithmetic of calc_f_pd, calc_f_vco, calc_f_smclk, set_vco_recal_delay
\* and configure_ramp between their bus transactions
Compute ==
    /\ todo # <<>>
    /\ Head(todo).k \in {"f_pd", "f_vco", "f_smclk", "recal_delay", "ramp"}
    /\ LET s == Head(todo)
           fpd == FpdOf(rd)
           fvco == FvcoOf(rd, loc.f_pd_in)
           rp == RampParams(cur.args, loc.f_pd)
           raise(e) == err' = e /\ todo' = <<>> /\ loc' = loc
           go(l) == err' = err /\ todo' = Tail(todo) /\ loc' = l
       IN  CASE s.k = "f_pd" ->
                  IF fpd.zero THEN raise("ZeroDivisionError")
                  ELSE IF s.d = 1 THEN go([loc EXCEPT !.f_pd_in = fpd.val])
                  ELSE go([loc EXCEPT !.f_pd = fpd.val])
             [] s.k = "f_vco" ->
                  IF fvco.zero THEN raise("ZeroDivisionError")
                  ELSE go([loc EXCEPT !.f_vco = fvco.val])
             [] s.k = "f_smclk" -> go([loc EXCEPT !.ret = FsmclkOf(rd)])
             [] s.k = "recal_delay" ->
                  go([loc EXCEPT !.ret = <<cur.args[1] * (2 ^ cur.args[2]) * loc.ret[2],
                                           loc.ret[1]>>])
             [] s.k = "ramp" ->
                  IF rp.status # "ok" THEN raise(rp.status)
                  ELSE /\ err' = err /\ loc' = loc
                       /\ todo' = RampWrites(rp) \o Tail(todo)
    /\ UNCHANGED <<fin, fout, regs, ld, wire, rclk, caller, pc, chunks, cur, acc,
                   rd, log, ncalls, others, ow, dflt>>

\* an assert on the arguments fails: the operation ends with AssertionError
AssertRaise ==
    /\ todo # <<>> /\ Head(todo).k = "AssertionError"
    /\ err' = "AssertionError"
    /\ todo' = <<>>
    /\ UNCHANGED <<fin, fout, regs, ld, wire, rclk, caller, pc, chunks, cur, acc,
                   rd, loc, log, ncalls, others, ow, dflt>>

\* pll.rclk.value(v)
PinWrite ==
    /\ todo # <<>> /\ Head(todo).k = "pin"
    /\ rclk' = Head(todo).d
    /\ todo' = Tail(todo)
    /\ UNCHANGED <<fin, fout, regs, ld, wire, caller, pc, chunks, cur, acc, rd,
                   loc, err, log, ncalls, others, ow, dflt>>

\* a second agent on the bus writes a register between the read and the write
\* of a modify() in progress
OtherWrite(a, w) ==
    /\ caller = "any" /\ others < MaxOther
    /\ todo # <<>> /\ Head(todo).k = "mwrite"
    /\ a \in OtherAddrs(Head(todo).a)
    /\ regs' = DevWrite(regs, a, w, dflt)
    /\ ld' \in LevelsAfter(a, DevWrite(regs, a, w, dflt))
    /\ others' = others + 1
    /\ ow' = [addr |-> a, data |-> w, call |-> ncalls, at |-> Len(log)]
    /\ UNCHANGED <<fin, fout, wire, rclk, caller, pc, chunks, cur, todo, acc, rd,
                   loc, err, log, ncalls, dflt>>

Next ==
    \/ MainCall
    \/ \E quit \in BOOLEAN : MainStdin(quit)
    \/ Takeover
    \/ \E c \in Menu : AnyCall(c)
    \/ BusRead
    \/ BusWrite
    \/ Compute
    \/ AssertRaise
    \/ PinWrite
    \/ \E a \in Addrs, w \in OtherWords : OtherWrite(a, w)

Init ==
    /\ InitDriver
    /\ fin = [word |-> 0, bits |-> <<0, 0>>, data |-> 0]
    /\ fout = [done |-> FALSE, set |-> 0, got |-> 0]

Spec == Init /\ [][Next]_vars

\* the bit-field helpers alone, the driver idle at power-up
InitHelpers ==
    /\ InitBits
    /\ dflt = 0
    /\ ld = 0
    /\ InitDriver

NextHelpers == ApplyBits

SpecBits == InitHelpers /\ [][NextHelpers]_vars

---------------------------------------------------------------------------
(* One call of the driver's interface on a device set up beforehand *)

\* the set-ups: f_pd = 10 MHz, f_pd = 20 MHz (doubler on), PLL_R = 0,
\* PLL_R_PRE = 0, PLL_DEN = 0, and the device as it powers up
Benches == 0 .. 5

\* the register file of a set-up: readback unlocked, the input path and the
\* dividers written (N = 580, NUM = 1, DEN = 0xFFFFFFFF unless zeroed)
BenchRegs(b) ==
    IF b = 5 THEN Defaults(0)
    ELSE [a \in Addrs |->
            CASE a = 0 -> UnlockWord
              [] a = 9 -> modify_word(0, <<12, 12>>, IF b = 1 THEN 1 ELSE 0)
              [] a = 10 -> modify_word(0, <<7, 11>>, 1)
              [] a = 11 -> modify_word(0, <<4, 11>>, IF b = 2 THEN 0 ELSE 1)
              [] a = 12 -> modify_word(0, <<0, 11>>, IF b = 3 THEN 0 ELSE 1)
              [] a = 36 -> 580
              [] a = 43 -> 1
              [] a \in {38, 39} -> IF b = 4 THEN 0 ELSE 65535
              [] OTHER -> 0]

\* integer dividers program_vco_dividers() is given
DividerNs == {0, 580, 65535, 65536, 65541, 262151, 524287, 524291}

\* addresses and words of the raw register calls
ProbeAddrs == {0, 1, 36, 100, 112}
ProbeWords == {0, 2, 4, 9232, 43690, 65535}
WideAddrs == {112, 113, 127, 128, 133, 241}

\* the setters that validate their arguments, with arguments in and out of
\* range
SetterCalls ==
    {Call("set_output_power", a) : a \in {<<0, 9>>, <<1, 31>>, <<2, 9>>, <<0, 32>>, <<0, -1>>}}
        \cup {Call("set_channel_divider", <<v>>) : v \in {0, 17, 18, -1}}
        \cup {Call("set_ramp_trig", a) : a \in {<<0, 1>>, <<1, 10>>, <<2, 1>>, <<0, 3>>}}
        \cup {Call("set_ramp_trig_type", a) : a \in {<<0, 1>>, <<1, 2>>, <<2, 0>>, <<0, 3>>}}
        \cup {Call("set_smclk_div", <<v>>) : v \in {0, 3, 4, -1}}
        \cup {Call("set_vco_recal_delay", a) :
                  a \in {<<300, 0>>, <<511, 7>>, <<512, 0>>, <<300, 8>>, <<-1, 0>>}}
        \cup {Call(op, <<v>>) : op \in {"enable_ramp", "enable_calibration", "powerdown"},
                                v \in {-1, 0, 1, 2}}

\* configure_ramp() arguments: those of main() in both directions, a ramp too
\* long, of no length, too steep, a threshold too wide, a span beyond the
\* ramp limits, a span too small to step in both directions
RampArgsApi ==
    {<<100, 1, 2000, 150, 1, 0>>, <<100, 1, 2000, 150, 0, 1>>,
     <<100, 1, 7000, 150, 0, 1>>, <<100, 1, 0, 150, 0, 0>>,
     <<10000, 1, 1, 150, 0, 1>>, <<100, 1, 2000, 1000, 0, 1>>,
     <<3000, 1, 2000, 150, 0, 1>>, <<3000, 1, 2000, 150, 1, 0>>,
     <<1, 100, 2000, 150, 1, 0>>, <<1, 100, 2000, 150, 0, 1>>}

MenuApi ==
    SetterCalls
        \cup {Call("program_vco_dividers", <<n, 0, 1, 65535, 65535>>) : n \in DividerNs}
        \cup {Call("program_vco_dividers", <<580, 74565, 4660, 65536, 0>>)}
        \cup {Call("write_read", <<a, w>>) : a \in ProbeAddrs, w \in ProbeWords}
        \cup {Call("read", <<a>>) : a \in WideAddrs}
        \cup {Call("write", <<a, 48879>>) : a \in WideAddrs}
        \cup {Call("modify", <<a, 0, 3, 5>>) : a \in WideAddrs}
        \cup {Call("configure_ramp", a) : a \in RampArgsApi}
        \cup {Call("ramp_then_read", a) : a \in RampArgsApi}
        \cup {Call("dividers_then_read", <<n, 0, 1, 65535, 65535>>) : n \in DividerNs}
        \cup {Call("dividers_then_read", <<580, 4660, 22136, 65535, 0>>)}
        \cup {Call("calc_f_pd", <<>>), Call("calc_f_vco", <<>>), Call("calc_f_smclk", <<>>)}

InitApi ==
    /\ dflt = 0
    /\ regs \in {BenchRegs(b) : b \in Benches}
    /\ ld = 0
    /\ wire = <<CsEvent(1)>>
    /\ rclk = 0
    /\ caller = "api"
    /\ pc = 1
    /\ chunks = 0
    /\ cur = NoCall
    /\ todo = <<>>
    /\ acc = 0
    /\ rd = <<>>
    /\ loc = Loc0
    /\ err = "none"
    /\ log = <<>>
    /\ ncalls = 0
    /\ others = 0
    /\ ow = NoOther
    /\ fin = [word |-> 0, bits |-> <<0, 0>>, data |-> 0]
    /\ fout = [done |-> FALSE, set |-> 0, got |-> 0]

\* the one call made
ApiCall(c) ==
    /\ caller = "api" /\ Idle
    /\ ncalls = 0
    /\ Start(c)
    /\ ncalls' = 1
    /\ UNCHANGED <<fin, fout, regs, ld, wire, rclk, caller, pc, chunks, others, dflt>>

NextApi ==
    \/ \E c \in MenuApi : ApiCall(c)
    \/ BusRead
    \/ BusWrite
    \/ Compute
    \/ AssertRaise

SpecApi == InitApi /\ [][NextApi]_vars

---------------------------------------------------------------------------
(* Properties *)

Width(bits) == bits[2] - bits[1] + 1

OutsideSame(w1, w2, bits) ==
    \A i \in 0 .. 15 : (i < bits[1] \/ i > bits[2]) => BitAt(w1, i) = BitAt(w2, i)

\* C1: setting a bit range of a 16-bit word and reading the same range back
\* gives the data modulo 2^(high-low+1), whatever the other bits of the word
C1_SetThenGet ==
    fout.done => fout.got = fin.data % (2 ^ Width(fin.bits))

C1_Witness ==
    /\ fout.done
    /\ fin.word = 65535 /\ fin.bits = <<4, 7>> /\ fin.data = 65535
    /\ fout.got = 15

\* C2: modify_word changes no bit outside [low,high], ignores the bits of data
\* above position high-low, and returns a 16-bit value
C2_ModifyWordFrame ==
    fout.done =>
        /\ OutsideSame(fout.set, fin.word, fin.bits)
        /\ fout.set \in 0 .. 65535
        /\ fout.set = modify_word(fin.word, fin.bits, fin.data % (2 ^ Width(fin.bits)))

C2_Witness ==
    /\ fout.done
    /\ fin.word = 52428 /\ fin.bits = <<4, 7>> /\ fin.data = 74565
    /\ fout.set = 52316

\* a step of the driver that is the write of a modify()
ModifyWriteStep ==
    /\ todo # <<>> /\ Head(todo).k = "mwrite"
    /\ todo' = Tail(todo)

\* the word the pending write of a modify() sends
ModifyWord == modify_word(acc, <<Head(todo).lo, Head(todo).hi>>, Head(todo).d)

\* the second agent wrote between the read and the write of the modify() at hand
Interfered == ow.at = Len(log)

\* the pending write of a modify() sets RESET in R0
AssertsReset == Head(todo).a = 0 /\ BitAt(ModifyWord, 1) = 1

\* a completed raw modify(addr, bits, data) call
ModifyCallDone == cur.op = "modify" /\ todo = <<>>

\* what modify() issues: a read of addr, then a write of addr with the word
\* modify_word makes of the value read
ModifyIssues ==
    /\ ModifyCallDone =>
           /\ Len(log) = 2
           /\ log[1].op = "r" /\ log[1].addr = cur.args[1]
           /\ log[2] = LogWrite(cur.args[1],
                                modify_word(log[1].data,
                                            <<cur.args[2], cur.args[3]>>, cur.args[4]))
    /\ (todo # <<>> /\ Head(todo).k = "mwrite") =>
           /\ Len(log) >= 1
           /\ log[Len(log)] = LogRead(Head(todo).a, acc)

\* the write of a modify() leaves the other registers, and the other bits of
\* its own, as they were
ModifyFrame ==
    LET s == Head(todo)
    IN  /\ \A b \in Addrs \ {s.a} : regs'[b] = regs[b]
        /\ OutsideSame(regs'[s.a], regs[s.a], <<s.lo, s.hi>>)

\* C3 as stated: one read then one write of addr with modify_word's word, and
\* with a single accessor only bits [low,high] of addr change
C3_Original ==
    /\ [](ModifyIssues)
    /\ [][(ModifyWriteStep /\ ~Interfered) => ModifyFrame]_vars

\* C3 amended: the same, the frame part for readback unlocked (the read
\* returns the register) and a word written that does not set RESET in R0
C3_ModifyReadThenWrite ==
    /\ [](ModifyIssues)
    /\ [][(ModifyWriteStep /\ ~Interfered /\ ~Locked(regs) /\ ~AssertsReset)
              => ModifyFrame]_vars

C3_Witness ==
    /\ ModifyCallDone /\ ~Locked(regs) /\ ow = NoOther /\ err = "none"
    /\ Len(log) = 2 /\ log[2].data # log[1].data

\* C4 as stated: a second agent's write of the same register between the read
\* and the write of modify() is lost: the register then holds
\* modify_word(value read, bits, data), and no error is raised
C4_Original ==
    [][(ModifyWriteStep /\ Interfered /\ ow.addr = Head(todo).a)
           => /\ regs'[Head(todo).a] = ModifyWord
              /\ err' = "none"]_vars

\* C4 amended: the register holds what the write of that word leaves in it:
\* the word, or the reset default of R0 when the word sets RESET
C4_LostUpdate ==
    [][(ModifyWriteStep /\ Interfered /\ ow.addr = Head(todo).a)
           => /\ regs'[Head(todo).a] = IF AssertsReset THEN ResetR0 ELSE ModifyWord
              /\ log' = Append(log, LogWrite(Head(todo).a, ModifyWord))
              /\ err' = "none"]_vars

\* the second agent's word, different from the one read, has gone from the
\* bits outside the modified range
C4_Witness ==
    /\ ModifyCallDone /\ ow.addr = cur.args[1] /\ ow.at = 1 /\ err = "none"
    /\ ow.data # log[1].data
    /\ regs[cur.args[1]] = log[2].data
    /\ OutsideSame(regs[cur.args[1]], log[1].data, <<cur.args[2], cur.args[3]>>)
    /\ ~OutsideSame(regs[cur.args[1]], ow.data, <<cur.args[2], cur.args[3]>>)

\* C5 as stated: a configure_ramp() that fails a range check has written no
\* register
C5_NoWriteBeforeFailure ==
    (cur.op = "configure_ramp" /\ err = "AssertionError")
        => \A i \in 1 .. Len(log) : log[i].op = "r"

\* C6: configure_ramp() issues no transaction to register 0 and its steps
\* leave R0, so FCAL_EN and RAMP_EN, as they were, whether it succeeds or fails
C6_RampLeavesR0 ==
    /\ [](cur.op = "configure_ramp" => \A i \in 1 .. Len(log) : log[i].addr # 0)
    /\ [][(cur.op = "configure_ramp" /\ todo # <<>> /\ todo' # todo)
              => regs'[0] = regs[0]]_vars

C6_Witness ==
    /\ cur.op = "configure_ramp" /\ todo = <<>> /\ err = "none"
    /\ FCAL_EN(regs) = 1 /\ RAMP_EN(regs) = 1
    /\ regs[100] = 40000

\* the statement of main() that calls configure_ramp()
RampStmt == CHOOSE i \in 1 .. Len(MainProgram) : MainProgram[i].op = "configure_ramp"

\* main() has run configure_ramp() to its end
RampConfigured ==
    pc > RampStmt /\ ~(pc = RampStmt + 1 /\ todo # <<>>) /\ err = "none"

\* C7: in main(), FCAL_EN is 0 at every register write of configure_ramp(),
\* and it is 1 only once configure_ramp() has completed and RAMP_EN is set
C7_CalOffWhileRampWritten ==
    /\ []((caller = "main" /\ FCAL_EN(regs) = 1)
              => (RampConfigured /\ RAMP_EN(regs) = 1))
    /\ [][(caller = "main" /\ cur.op = "configure_ramp"
               /\ todo # <<>> /\ Head(todo).k \in {"write", "mwrite"}
               /\ todo' = Tail(todo))
              => (FCAL_EN(regs) = 0 /\ FCAL_EN(regs') = 0)]_vars

C7_Witness ==
    /\ caller = "main" /\ pc = Len(MainProgram) + 1 /\ todo = <<>>
    /\ FCAL_EN(regs) = 1 /\ RAMP_EN(regs) = 1
    /\ regs[100] = 40000 /\ regs[86] # DefaultReg(86, dflt)

\* C8 as stated: main() has no modify() under way while readback is locked
C8_NoModifyWhileLocked ==
    caller = "main"
        => ~(Locked(regs) /\ todo # <<>> /\ Head(todo).k \in {"mread", "mwrite"})

\* C9: the unlock is one write transaction, of 0x2410 to register 0, the
\* frame 0x00 0x24 0x10, and no read
C9_UnlockIsOneRawWrite ==
    /\ cur.op = "enable_readback_blind" => \A i \in 1 .. Len(log) : log[i].op = "w"
    /\ (cur.op = "enable_readback_blind" /\ todo = <<>>)
           => /\ log = <<LogWrite(0, 9232)>>
              /\ wire = <<CsEvent(0), TxEvent(0), TxEvent(36), TxEvent(16), CsEvent(1)>>

C9_Witness ==
    /\ cur.op = "enable_readback_blind" /\ todo = <<>> /\ caller = "main"
    /\ ~Locked(regs) /\ regs[0] = 9232

\* a step of the driver itself, not of the second agent
DriverStep == others' = others

\* the device restores its defaults: a write to R0 that sets RESET
ResetStep ==
    /\ todo # <<>> /\ Head(todo).k \in {"write", "mwrite"} /\ Head(todo).a = 0
    /\ BitAt(IF Head(todo).k = "mwrite" THEN ModifyWord ELSE Head(todo).d, 1) = 1

\* readback stays unlocked and calibration, once enabled, stays enabled
Forward ==
    /\ ~Locked(regs) => ~Locked(regs')
    /\ FCAL_EN(regs) = 1 => FCAL_EN(regs') = 1

WriteStep ==
    /\ todo # <<>> /\ Head(todo).k \in {"write", "mwrite"}
    /\ todo' = Tail(todo)

ReadStep ==
    /\ todo # <<>> /\ Head(todo).k \in {"read", "mread"}
    /\ todo' = Tail(todo)

\* C11: program_vco_dividers() writes the high bits of N (R34[0:2]) before
\* the low 16 bits (R36): no write of R36 without an earlier write of R34 in
\* the same call, and the two carry N >> 16 and N & 0xFFFF
C11_DividerHighFirst ==
    cur.op = "program_vco_dividers" =>
        /\ \A i \in 1 .. Len(log) :
               (log[i].op = "w" /\ log[i].addr = 36)
                   => \E j \in 1 .. (i - 1) : log[j].op = "w" /\ log[j].addr = 34
        /\ todo = <<>> =>
               /\ [i \in 1 .. Len(log) |-> <<log[i].op, log[i].addr>>]
                      = <<(<<"r", 34>>), (<<"w", 34>>), (<<"w", 36>>), (<<"w", 42>>),
                          (<<"w", 43>>), (<<"w", 38>>), (<<"w", 39>>)>>
               /\ log[2].data % 8 = (cur.args[1] \div 65536) % 8
               /\ log[3].data = cur.args[1] % 65536

C11_Witness ==
    /\ cur.op = "program_vco_dividers" /\ todo = <<>>
    /\ cur.args[1] = 262151
    /\ get_bits(regs[34], <<0, 2>>) = 4 /\ regs[36] = 7

\* C12: every transaction is one chip-select framed exchange: a write sends
\* addr & 0x7F, the high byte and the low byte of the word; a read sends
\* (addr & 0x7F) | 0x80 and takes two bytes, big-endian; chip-select is high
\* between transactions
C12_Framing ==
    /\ [](wire[Len(wire)] = CsEvent(1))
    /\ [][WriteStep =>
              LET s == Head(todo)
                  w == IF s.k = "mwrite" THEN ModifyWord ELSE s.d
              IN  wire' = <<CsEvent(0), TxEvent(s.a % 128),
                            TxEvent((w \div 256) % 256), TxEvent(w % 256),
                            CsEvent(1)>>]_vars
    /\ [][ReadStep =>
              LET s == Head(todo)
                  got == IF s.k = "mread" THEN acc' ELSE rd'[s.a]
              IN  /\ Len(wire') = 5
                  /\ wire'[1] = CsEvent(0)
                  /\ wire'[2] = TxEvent((s.a % 128) + 128)
                  /\ wire'[3] = RxEvent(got \div 256)
                  /\ wire'[4] = RxEvent(got % 256)
                  /\ wire'[5] = CsEvent(1)]_vars

C12_Witness ==
    /\ caller = "main" /\ cur.op = "read_ramp_cfg_regs"
    /\ wire = <<CsEvent(0), TxEvent(228), RxEvent(156), RxEvent(64), CsEvent(1)>>
    /\ log[Len(log)] = LogRead(100, 40000)

RoundTripDone == cur.op = "write_read" /\ todo = <<>>

\* C13 as stated: write(addr, w) then read(addr) returns w and the other
\* registers are as they were, for every addr in 0..112 and every word
C13_Original ==
    /\ [](RoundTripDone => rd[cur.args[1]] = cur.args[2])
    /\ [][(cur.op = "write_read" /\ WriteStep)
              => \A b \in Addrs \ {cur.args[1]} : regs'[b] = regs[b]]_vars

\* C13 amended: the same when readback is unlocked once the write is done
C13_RoundTrip ==
    /\ []((RoundTripDone /\ ~Locked(regs))
              => (rd[cur.args[1]] = cur.args[2] /\ regs[cur.args[1]] = cur.args[2]))
    /\ [][(cur.op = "write_read" /\ WriteStep /\ ~Locked(regs'))
              => \A b \in Addrs \ {cur.args[1]} : regs'[b] = regs[b]]_vars

C13_Witness ==
    /\ RoundTripDone /\ ~Locked(regs)
    /\ cur.args = <<112, 43690>> /\ rd[112] = 43690 /\ regs[112] = 43690

\* C14 as stated: read, write and modify of an address of 113 or above issue
\* no transaction and end with an error
C14_BadAddressRejected ==
    (cur.op \in {"read", "write", "modify"} /\ cur.args[1] >= 113)
        => (log = <<>> /\ (todo = <<>> => err # "none"))

\* the arguments of a validating setter are within the ranges it declares
InRange(c) ==
    LET x == c.args
    IN  CASE c.op = "set_output_power" -> x[1] \in {0, 1} /\ x[2] \in 0 .. 31
          [] c.op = "set_channel_divider" -> x[1] \in 0 .. 17
          [] c.op = "set_ramp_trig" -> x[1] \in {0, 1} /\ x[2] \in {0, 1, 2, 4, 9, 10}
          [] c.op = "set_ramp_trig_type" -> x[1] \in {0, 1} /\ x[2] \in 0 .. 2
          [] c.op = "set_smclk_div" -> x[1] \in 0 .. 3
          [] c.op = "set_vco_recal_delay" -> x[1] \in 0 .. 511 /\ x[2] \in 0 .. 7
          [] c.op \in {"enable_ramp", "enable_calibration", "powerdown"} -> x[1] \in {0, 1}
          [] OTHER -> TRUE

\* C15: a validating setter given an out-of-range argument fails with no read
\* and no write issued, the register file as it was
C15_SettersValidateFirst ==
    /\ [](~InRange(cur) => (log = <<>> /\ (todo = <<>> => err = "AssertionError")))
    /\ [][~InRange(cur) => regs' = regs]_vars

C15_Witness ==
    /\ cur = Call("set_vco_recal_delay", <<300, 8>>)
    /\ todo = <<>> /\ err = "AssertionError" /\ log = <<>>

\* configure_ramp() has computed f_pd and f_vco, and ramp_len is not 0: the
\* ramp parameters are defined
RampKnown ==
    /\ cur.op = "configure_ramp"
    /\ loc.f_pd[1] > 0 /\ loc.f_vco # <<>>
    /\ RampLenOf(cur.args, loc.f_pd) > 0

\* ramp_inc as derived from the arguments, the negation included
IncOf(args, f_pd) ==
    IF args[5] = 1 THEN WideSub(Wide(16384, 0), AscIncOf(args, f_pd))
    ELSE Wide(AscIncOf(args, f_pd).h, AscIncOf(args, f_pd).l)

\* a derived code [h, l] lies outside [0, 2^bits - 1]
OutOfBits(v, bits) == v.h < 0 \/ v.h >= 2 ^ (bits - 16)

RampParamBad ==
    \/ RampLenOf(cur.args, loc.f_pd) > 65535
    \/ OutOfBits(IncOf(cur.args, loc.f_pd), 30)
    \/ OutOfBits(ThreshOf(cur.args, loc.f_pd), 29)

\* C16: configure_ramp() fails its asserts on a ramp_len above 0xFFFF, a
\* ramp_inc outside [0, 0x3FFFFFFF] or a threshold outside [0, 0x1FFFFFFF],
\* and then writes none of R98, R99, R100, R79, R80
C16_RampParamsRejected ==
    (RampKnown /\ RampParamBad)
        => /\ \A i \in 1 .. Len(log) :
                  ~(log[i].op = "w" /\ log[i].addr \in {98, 99, 100, 79, 80})
           /\ todo = <<>> => err = "AssertionError"

C16_Witness ==
    /\ cur = Call("configure_ramp", <<100, 1, 7000, 150, 0, 1>>)
    /\ todo = <<>> /\ err = "AssertionError"
    /\ loc.f_pd = <<10, 1>> /\ regs[100] = 0

\* C17 as stated: configure_ramp() fails when ramp_high or ramp_low does not
\* fit 33 bits
C17_LimitsChecked ==
    (RampKnown /\ todo = <<>>
         /\ (\/ OutOfBits(RampHighOf(cur.args, loc.f_pd), 33)
             \/ OutOfBits(RampLowOf(RampHighOf(cur.args, loc.f_pd)), 33)))
        => err # "none"

\* C18: the ramp_inc written to R98[2:15] and R99 is the ascending value, or
\* 2^30 minus it for a descending ramp, and is within [0, 0x3FFFFFFF]
C18_DescendingInc ==
    (cur.op = "configure_ramp" /\ todo = <<>> /\ err = "none")
        => LET asc == AscIncOf(cur.args, loc.f_pd)
               written == get_bits(regs[98], <<2, 15>>) * 65536 + regs[99]
           IN  /\ asc.h <= 16384
               /\ written = IF cur.args[5] = 1
                            THEN 1073741824 - (asc.h * 65536 + asc.l)
                            ELSE asc.h * 65536 + asc.l
               /\ written \in 0 .. 1073741823

C18_Witness ==
    /\ cur = Call("configure_ramp", <<100, 1, 2000, 150, 1, 0>>)
    /\ todo = <<>> /\ err = "none" /\ loc.f_pd = <<10, 1>>
    /\ get_bits(regs[98], <<2, 15>>) = 16383 /\ regs[99] = 57148

\* the registers give f_pd = 10 MHz and a defined f_vco, readback unlocked
GivesTenMHz ==
    LET OSC_2X == get_bits(regs[9], <<12, 12>>)
        MULT == get_bits(regs[10], <<7, 11>>)
        PLL_R == get_bits(regs[11], <<4, 11>>)
        PLL_R_PRE == get_bits(regs[12], <<0, 11>>)
    IN  /\ ~Locked(regs)
        /\ PLL_R > 0 /\ PLL_R_PRE > 0
        /\ F_REFCLK * (OSC_2X + 1) * MULT = 10 * PLL_R_PRE * PLL_R
        /\ ~(regs[38] = 0 /\ regs[39] = 0)

\* C19: at f_pd = 10 MHz configure_ramp(100e6, 2e-3, 150e6, descending) is
\* accepted, writes 20000 to R100, ramp_inc = 2^30 - 8388 (30 bits) and the
\* threshold 15 * 2^24 (29 bits)
C19_Example ==
    (cur.op = "configure_ramp" /\ todo = <<>> /\ GivesTenMHz
         /\ SubSeq(cur.args, 1, 5) = <<100, 1, 2000, 150, 1>>)
        => /\ err = "none"
           /\ \E i \in 1 .. Len(log) : log[i] = LogWrite(100, 20000)
           /\ regs[100] = 20000
           /\ get_bits(regs[98], <<2, 15>>) * 65536 + regs[99] = 1073733436
           /\ get_bits(regs[78], <<11, 11>>) = 0
           /\ regs[79] * 65536 + regs[80] = 251658240

C19_Witness ==
    /\ cur.op = "configure_ramp" /\ todo = <<>> /\ GivesTenMHz
    /\ SubSeq(cur.args, 1, 5) = <<100, 1, 2000, 150, 1>>
    /\ regs[100] = 20000 /\ regs[79] = 3840

\* calc_f_pd() or calc_f_vco() is done and a divisor it read was 0
ZeroDivisorRead ==
    /\ cur.op \in {"calc_f_pd", "calc_f_vco"} /\ todo = <<>>
    /\ \/ get_bits(rd[11], <<4, 11>>) = 0
       \/ get_bits(rd[12], <<0, 11>>) = 0
       \/ cur.op = "calc_f_vco" /\ rd[38] = 0 /\ rd[39] = 0

\* calc_f_pd() and calc_f_vco() only read
OnlyReads ==
    /\ [](cur.op \in {"calc_f_pd", "calc_f_vco"}
              => \A i \in 1 .. Len(log) : log[i].op = "r")
    /\ [][cur.op \in {"calc_f_pd", "calc_f_vco"} => regs' = regs]_vars

\* C20 as stated: with a divisor read as 0 the functions return a value and
\* raise no error; they only read
C20_Original ==
    /\ [](ZeroDivisorRead => err = "none")
    /\ OnlyReads

\* C20 amended: with a divisor read as 0 the division raises
\* ZeroDivisionError, which reaches the caller; they only read
C20_ZeroDivisorRaises ==
    /\ [](ZeroDivisorRead => err = "ZeroDivisionError")
    /\ OnlyReads

C20_Witness ==
    /\ cur.op = "calc_f_vco" /\ todo = <<>> /\ err = "ZeroDivisionError"
    /\ ~Locked(regs) /\ Len(log) = 16
    /\ rd[38] = 0 /\ rd[39] = 0 /\ get_bits(rd[11], <<4, 11>>) = 1

---------------------------------------------------------------------------
(* The derived ramp codes, the registers configure_ramp() leaves behind and
   the read-back of the extended fields *)

\* half of a wide number, rounded down
WideHalf(a) == Wide(a.h \div 2, (a.h % 2) * 32768 + a.l \div 2)

\* the integer nearest to A * 16777216 / B, a tie going up
WideNearest(A, B) == WideHalf(WideInc(WideQuot(2 * A, B)))

\* A * 16777216 / B lies exactly half way between two integers
WideTie(A, B) == WideQuot(2 * A, B).exact /\ WideQuot(2 * A, B).l % 2 = 1

\* a successful configure_ramp() has returned
RampDone == cur.op = "configure_ramp" /\ todo = <<>> /\ err = "none"

\* the ascending increment that the registers hold after configure_ramp()
AscWritten ==
    IF cur.args[5] = 1 THEN WideSub(Wide(16384, 0), RAMP0_INC(regs))
    ELSE RAMP0_INC(regs)

\* C21 as stated: after a successful configure_ramp() the registers hold the
\* integers nearest to ramp_len_s * f_pd, span / f_pd * 2^24 / ramp_len and
\* thresh / f_pd * 2^24, a fractional part of one half or more rounding up
C21_NearestCodes ==
    RampDone
        => LET fn == loc.f_pd[1]
               fd == loc.f_pd[2]
               len == RampLenOf(cur.args, loc.f_pd)
               incA == cur.args[1] * fd
               incB == cur.args[2] * fn * len
           IN  /\ RAMP0_LEN(regs) = (2 * cur.args[3] * fn + fd) \div (2 * fd)
               /\ \/ AscWritten = WideNearest(incA, incB)
                  \/ WideTie(incA, incB)
                         /\ WideInc(AscWritten) = WideNearest(incA, incB)
               /\ \/ RAMP_THRESH(regs) = WideNearest(cur.args[4] * fd, fn)
                  \/ WideTie(cur.args[4] * fd, fn)
                         /\ WideInc(RAMP_THRESH(regs)) = WideNearest(cur.args[4] * fd, fn)

\* C22 as stated: with ramp_len in [0, 0xFFFF], zero included,
\* configure_ramp() completes or fails one of its three asserts, and fails in
\* no other way
C22_ZeroLenAccepted ==
    (/\ cur.op = "configure_ramp" /\ todo = <<>>
     /\ loc.f_pd[1] > 0 /\ loc.f_vco # <<>>
     /\ RampLenOf(cur.args, loc.f_pd) \in 0 .. 65535)
        => err \in {"none", "AssertionError"}


\* the mode and trigger fields configure_ramp(free_run) programs
RampModeFields(r, free_run) ==
    /\ get_bits(r[105], <<5, 5>>) = 0
    /\ get_bits(r[101], <<4, 4>>) = 0
    /\ get_bits(r[97], <<15, 15>>) = 1
    /\ get_bits(r[106], <<4, 4>>) = 0
    /\ r[60] = 0
    /\ get_bits(r[106], <<0, 2>>) = 1
    /\ get_bits(r[78], <<9, 9>>) = 1
    /\ get_bits(r[101], <<0, 1>>) = (IF free_run = 1 THEN 0 ELSE 1)
    /\ get_bits(r[97], <<3, 6>>) = (IF free_run = 1 THEN 0 ELSE 1)

\* a write of R97 by configure_ramp(), no other master having written during
\* the call
RampWritesR97 ==
    /\ cur.op = "configure_ramp" /\ WriteStep /\ Head(todo).a = 97
    /\ ow.call # ncalls

\* RAMP_TRIGB and RAMP_BURST_TRIG are the same before and after the step
TrigBSame ==
    /\ get_bits(regs'[97], <<7, 10>>) = get_bits(regs[97], <<7, 10>>)
    /\ get_bits(regs'[97], <<0, 1>>) = get_bits(regs[97], <<0, 1>>)

\* C23 as stated: every successful configure_ramp() leaves the mode and
\* trigger fields programmed and R97[7:10] and R97[0:1] as they were
C23_Original ==
    /\ [](RampDone => RampModeFields(regs, cur.args[6]))
    /\ [][RampWritesR97 => TrigBSame]_vars

\* C23: after every successful configure_ramp() on a device whose readback
\* is enabled R105[5] = 0, R101[4] = 0, R97[15] = 1, R106[4] = 0, R60 = 0,
\* R106[0:2] = 1, R78[9] = 1, and R101[0:1] and R97[3:6] are both 0 for
\* free_run and both 1 otherwise; its writes leave R97[7:10] and R97[0:1] as
\* they were
C23_RampModeFields ==
    /\ []((RampDone /\ ~Locked(regs)) => RampModeFields(regs, cur.args[6]))
    /\ [][(RampWritesR97 /\ ~Locked(regs)) => TrigBSame]_vars

C23_Witness ==
    /\ cur = Call("configure_ramp", <<1, 100, 2000, 0, 0, 1>>)
    /\ todo = <<>> /\ err = "none" /\ ~Locked(regs) /\ ow.call # ncalls
    /\ get_bits(regs[97], <<7, 10>>) # 0
    /\ get_bits(regs[97], <<3, 6>>) = 0

\* a wide number without the exactness flag of a quotient
Plain(v) == Wide(v.h, v.l)

\* the divider fields read back after program_vco_dividers(N, num, denom)
\* are the values programmed
DividersReadBack ==
    (/\ cur.op = "dividers_then_read" /\ todo = <<>> /\ err = "none"
     /\ ~Locked(regs) /\ cur.args[1] < 524288)
        => /\ PLL_N(rd) = Wide(cur.args[1] \div 65536, cur.args[1] % 65536)
           /\ PLL_NUM(rd) = Wide(cur.args[2], cur.args[3])
           /\ PLL_DEN(rd) = Wide(cur.args[4], cur.args[5])

\* the ramp fields read back after a successful configure_ramp() are the
\* derived codes
RampReadBack ==
    (cur.op = "ramp_then_read" /\ todo = <<>> /\ err = "none" /\ ~Locked(regs))
        => /\ RAMP0_INC(rd) = IncOf(cur.args, loc.f_pd)
           /\ RAMP0_LEN(rd) = RampLenOf(cur.args, loc.f_pd)
           /\ RAMP_THRESH(rd) = Plain(ThreshOf(cur.args, loc.f_pd))
           /\ RAMP_LIMIT_HIGH(rd) = Plain(RampHighOf(cur.args, loc.f_pd))
           /\ RAMP_LIMIT_LOW(rd) = RampLowOf(RampHighOf(cur.args, loc.f_pd))

\* C24 as stated: with readback enabled the multi-register fields read back
\* as the values programmed: PLL_N, PLL_NUM and PLL_DEN after program_vco_dividers() with
\* N < 2^19 and num, denom < 2^32, and RAMP0_INC, RAMP0_LEN, RAMP_THRESH,
\* ramp_high and ramp_low after a successful configure_ramp()
C24_ReadBack == DividersReadBack /\ RampReadBack

\* program_vco_dividers() followed by the read-back has returned, readback
\* enabled
DividersRead ==
    /\ cur.op = "dividers_then_read" /\ todo = <<>> /\ err = "none"
    /\ ~Locked(regs) /\ cur.args[1] < 524288

\* a successful configure_ramp() followed by the read-back has returned,
\* readback enabled
RampRead ==
    cur.op = "ramp_then_read" /\ todo = <<>> /\ err = "none" /\ ~Locked(regs)

\* what the register above the 16-bit words adds to a field read back as
\* [h, l] whose low part is low_words words wide
HeaderPart(v, low_words) == IF low_words = 1 THEN v.h ELSE v.h \div 65536

\* C25 as stated: in every extended field read back the register above the
\* low 16 or 32 bits contributes a single bit, never more
C25_Original ==
    /\ DividersRead => HeaderPart(PLL_N(rd), 1) \in {0, 1}
    /\ RampRead
           => /\ HeaderPart(RAMP0_INC(rd), 1) \in {0, 1}
              /\ HeaderPart(RAMP_THRESH(rd), 2) \in {0, 1}
              /\ HeaderPart(RAMP_LIMIT_HIGH(rd), 2) \in {0, 1}
              /\ HeaderPart(RAMP_LIMIT_LOW(rd), 2) \in {0, 1}

\* C25: the header register contributes bit 32 alone to RAMP_THRESH,
\* RAMP_LIMIT_HIGH and RAMP_LIMIT_LOW, the three bits 16..18 (R34[0:2]) to
\* PLL_N and the fourteen bits 16..29 (R98[2:15]) to RAMP0_INC; PLL_NUM and
\* PLL_DEN are two full registers with no header
C25_HeaderWidths ==
    /\ DividersRead
           => /\ HeaderPart(PLL_N(rd), 1) = cur.args[1] \div 65536
              /\ HeaderPart(PLL_N(rd), 1) \in 0 .. 7
              /\ PLL_NUM(rd) = Wide(cur.args[2], cur.args[3])
              /\ PLL_DEN(rd) = Wide(cur.args[4], cur.args[5])
              /\ \A i \in 1 .. Len(log) :
                     log[i].op = "w" => log[i].addr \in {34, 36, 42, 43, 38, 39}
    /\ RampRead
           => /\ HeaderPart(RAMP0_INC(rd), 1) = IncOf(cur.args, loc.f_pd).h
              /\ HeaderPart(RAMP0_INC(rd), 1) \in 0 .. 16383
              /\ HeaderPart(RAMP_THRESH(rd), 2) = Bit32(ThreshOf(cur.args, loc.f_pd))
              /\ HeaderPart(RAMP_LIMIT_HIGH(rd), 2) = Bit32(RampHighOf(cur.args, loc.f_pd))
              /\ HeaderPart(RAMP_LIMIT_LOW(rd), 2)
                     = Bit32(RampLowOf(RampHighOf(cur.args, loc.f_pd)))

C25_Witness ==
    /\ DividersRead /\ cur.args[1] = 524287
    /\ HeaderPart(PLL_N(rd), 1) = 7 /\ regs[34] = 7 /\ regs[36] = 65535

---------------------------------------------------------------------------
(* The recalibration delay, the unlock word and the trigger loop *)

\* set_vco_recal_delay(300, 0) of main() has returned
RecalDelaySet ==
    /\ caller = "main" /\ cur = Call("set_vco_recal_delay", <<300, 0>>)
    /\ todo = <<>> /\ err = "none"

\* C26 as stated: set_vco_recal_delay() returns
\* delay_count * 2^scale_count / f_smclk with f_smclk = f_osc_in / 2^CAL_CLK_DIV,
\* and the call of main() sets the delay to 25 microseconds
C26_RecalDelay25 ==
    RecalDelaySet
        => /\ loc.ret[1] * F_REFCLK
                  = 300 * (2 ^ 0) * (2 ^ get_bits(regs[1], <<0, 2>>)) * loc.ret[2]
           /\ loc.ret[1] = 25 * loc.ret[2]

\* RAMP_DLY_CNT and RAMP_SCALE_COUNT as read_ramp_cfg_regs() decodes them
RAMP_DLY_CNT(r) == get_bits(r[105], <<6, 15>>)
RAMP_SCALE_COUNT(r) == get_bits(r[106], <<0, 2>>)

\* the configure_ramp() call of main() has returned
MainRampDone ==
    /\ caller = "main" /\ cur = MainProgram[RampStmt]
    /\ todo = <<>> /\ err = "none"

\* a write of R105 by configure_ramp() with readback enabled, no other master
\* having written during the call
RampWritesR105 ==
    /\ cur.op = "configure_ramp" /\ WriteStep /\ Head(todo).a = 105
    /\ ow.call # ncalls /\ ~Locked(regs)

C28_UnlockClearsR0 ==
    /\ []((cur.op = "enable_readback_blind" /\ todo = <<>>)
              => /\ regs[0] = UnlockWord
                 /\ RAMP_EN(regs) = 0 /\ FCAL_EN(regs) = 0
                 /\ BitAt(regs[0], 1) = 0 /\ POWERDOWN(regs) = 0
                 /\ ~Locked(regs))
    /\ [][(/\ cur.op = "enable_readback_blind" /\ WriteStep
           /\ FCAL_EN(regs) = 1 /\ RAMP_EN(regs) = 1)
              => (FCAL_EN(regs') = 0 /\ RAMP_EN(regs') = 0)]_vars

\* the unlock as the first call made on the device main() has armed
C28_Witness ==
    /\ caller = "any" /\ pc = 16 /\ ncalls = 1
    /\ cur.op = "enable_readback_blind" /\ todo = <<>>
    /\ FCAL_EN(regs) = 0 /\ RAMP_EN(regs) = 0

\* configure_ramp() has ended on parameters whose ascending increment
\* truncates to 0, ramp_len and the threshold being in range
ZeroIncEnded ==
    /\ RampKnown /\ todo = <<>>
    /\ RampLenOf(cur.args, loc.f_pd) <= 65535
    /\ Plain(AscIncOf(cur.args, loc.f_pd)) = Wide(0, 0)
    /\ ~OutOfBits(ThreshOf(cur.args, loc.f_pd), 29)

\* the call in progress has written register a
Wrote(a) == \E i \in 1 .. Len(log) : log[i].op = "w" /\ log[i].addr = a

\* C29: when the ascending increment truncates to 0 a descending ramp fails
\* the ramp_inc assert (2^30 > 0x3FFFFFFF) and an ascending one is accepted;
\* the failing call has by then written the mode and trigger registers R105,
\* R101, R97, R106, R60 and R78, and none of the parameter registers
C29_ZeroIncRejected ==
    ZeroIncEnded
        => IF cur.args[5] = 1
           THEN /\ err = "AssertionError"
                /\ IncOf(cur.args, loc.f_pd) = Wide(16384, 0)
                /\ \A a \in {105, 101, 97, 106, 60, 78} : Wrote(a)
                /\ \A a \in {98, 99, 100, 79, 80, 81, 82, 83, 84, 85, 86} : ~Wrote(a)
           ELSE /\ err = "none"
                /\ RAMP0_INC(regs) = Wide(0, 0)

C29_Witness ==
    /\ ZeroIncEnded /\ cur.args[5] = 1 /\ err = "AssertionError"
    /\ get_bits(regs[97], <<15, 15>>) = 1 /\ get_bits(regs[78], <<9, 9>>) = 1

\* main() is in its trigger loop, lines 789-793
InLoop == caller = "main" /\ pc = Len(MainProgram) + 1

\* main() has left the trigger loop on "q\n"
LoopLeft == caller = "main" /\ pc = Len(MainProgram) + 2

\* C30: main() is in its trigger loop only with the device armed (FCAL_EN and
\* RAMP_EN set by enable_ramp(1) then enable_calibration(1)); a chunk other
\* than "q\n" drives rclk to 1 and then to 0, once; rclk is 0 whenever the
\* loop waits for input; "q\n" is followed by powerdown(1) and by no change of
\* rclk
C30_TriggerLoop ==
    /\ MainProgram[14] = Call("enable_ramp", <<1>>)
    /\ MainProgram[15] = Call("enable_calibration", <<1>>)
    /\ [](InLoop => (FCAL_EN(regs) = 1 /\ RAMP_EN(regs) = 1 /\ err = "none"))
    /\ []((InLoop /\ todo = <<>>) => rclk = 0)
    /\ []((InLoop /\ chunks > 0)
              => /\ cur = Call("trigger", <<>>)
                 /\ \/ todo = trigger_pulse /\ rclk = 0
                    \/ todo = Tail(trigger_pulse) /\ rclk = 1
                    \/ todo = <<>> /\ rclk = 0)
    /\ [][(caller = "main" /\ rclk' # rclk)
              => (InLoop /\ cur.op = "trigger"
                     /\ Len(todo) = (IF rclk' = 1 THEN 2 ELSE 1))]_vars
    /\ [](LoopLeft => (cur = Call("powerdown", <<1>>) /\ rclk = 0))
    /\ [][LoopLeft => (rclk' = rclk /\ caller' = caller /\ pc' = pc)]_vars

\* two pulses, then "q\n", then the power-down
C30_Witness ==
    /\ LoopLeft /\ chunks = 2 /\ todo = <<>> /\ err = "none"
    /\ rclk = 0 /\ POWERDOWN(regs) = 1

====
